---------------------------- MODULE Spec2Model ----------------------------
(***************************************************************************)
(* Model of src/app.py: the inundation-depth extractor.                    *)
(*                                                                         *)
(*   download_file            Fetcher: URL -> cached local file or None    *)
(*   extract_sampled_depths   Sampler: raster -> table of (x, y, depth)    *)
(*   append_to_output_file    Accumulator: read, concat, dedup, overwrite  *)
(*   the script body          Pipeline driver over the uploaded URL list   *)
(*                                                                         *)
(* Numbers.  Every float of the program (pixel values, coordinates, the    *)
(* no-data sentinel) is a fixed-point integer counting hundredths: 1 is    *)
(* 0.01, -500 is -5.0.  The CSV file holds text, so a persisted value is   *)
(* the character sequence to_csv writes and read_csv parses back.          *)
(***************************************************************************)
EXTENDS Integers, Sequences, FiniteSets, TLC

VARIABLES
    downloads,        \* DOWNLOAD_FOLDER: filename -> content of the cached file
    output_csv,       \* OUTPUT_FILE on disk
    urls,             \* the uploaded URL list (blank lines already dropped)
    i,                \* loop index of the driver (0-based, as enumerate gives it)
    pc,               \* position of the driver in the script
    progress,         \* last value handed to progress.progress, <<num, den>>
    error,            \* the exception that ended the script run, or "none"
    requests_made,    \* number of requests.get calls so far
    url,              \* argument of the last download_file call
    tiff_path,        \* value returned by the last download_file call
    fetch_kind,       \* branch the last download_file call took
    src,              \* the file handed to the last extract_sampled_depths call
    sample_limit,     \* its sample_limit argument
    sampled_indices,  \* its sampled_indices local
    df,               \* the rows of the DataFrame it returned
    sample_kind,      \* branch it took
    existing_csv,     \* OUTPUT_FILE as it was when the last merge started
    new_rows,         \* the df argument of the last append_to_output_file call
    calls             \* number of calls made (component specifications)

vars == <<downloads, output_csv, urls, i, pc, progress, error, requests_made,
          url, tiff_path, fetch_kind, src, sample_limit, sampled_indices, df,
          sample_kind, existing_csv, new_rows, calls>>

fetchVars  == <<downloads, requests_made, url, tiff_path, fetch_kind>>
sampleVars == <<src, sample_limit, sampled_indices, df, sample_kind>>
mergeVars  == <<output_csv, existing_csv, new_rows>>
driverVars == <<urls, i, pc, progress, error>>

-----------------------------------------------------------------------------
(* Bounds of the model *)

MaxWidth == 2       \* rasters drawn for the sampler are 1..2 rows by 1..MaxWidth columns
MaxCap == 2         \* sample_limit arguments drawn for the sampler: 0..MaxCap
MaxTableRows == 2   \* rows of the table found on disk before the first merge
MaxNewRows == 2     \* rows of a DataFrame handed to a merge
MaxCalls == 2       \* calls made in a component specification
MaxUrls == 2        \* URLs in an uploaded batch

(* Program constants *)

SAMPLE_LIMIT == 100000
DOWNLOAD_FOLDER == "downloads"
OUTPUT_FILE == "output.csv"
COLUMNS == <<"Longitude", "Latitude", "InundationDepth_m">>

-----------------------------------------------------------------------------
(* Sequences *)

Range(s) == {s[k] : k \in DOMAIN s}

SeqsUpTo(S, n) == UNION {[1..k -> S] : k \in 0..n}

Injective(f) == \A a, b \in DOMAIN f : f[a] = f[b] => a = b

-----------------------------------------------------------------------------
(* Rasters.  A file is either unreadable or a single-band raster: a grid
   band[<<row, col>>], a declared no-data sentinel (the set {v}, or {} when
   src.nodata is None) and a north-up affine transform with origin (c, f)
   and pixel sizes (a, e). *)

PixelValues == {-500, 0, 1, 200}

NoDataValues == {{}, {200}, {0}}

Positions(height, width) == (0..(height - 1)) \X (0..(width - 1))

GeoTransform == [a |-> 50, c |-> -100, e |-> -50, f |-> 200]

Corrupt == [readable |-> FALSE]

Raster(height, width, band, nodata) ==
    [readable |-> TRUE, height |-> height, width |-> width, band |-> band,
     nodata |-> nodata, transform |-> GeoTransform]

(* rasterio.transform.xy with the default offset: the centre of the pixel. *)
xy(transform, row, col) ==
    <<transform.c + transform.a * col + (transform.a \div 2),
      transform.f + transform.e * row + (transform.e \div 2)>>

-----------------------------------------------------------------------------
(* extract_sampled_depths *)

(* Faulty variant: the sentinel comparison left out. *)
valid_mask_any_positive(raster) ==
    [p \in DOMAIN raster.band |-> raster.band[p] > 0]

(* valid_mask = (band != nodata) & (band > 0); band != None is True everywhere. *)
valid_mask(raster) ==
    [p \in DOMAIN raster.band |->
        (raster.band[p] \notin raster.nodata) /\ (raster.band[p] > 0)]

(* np.argwhere: the positions where the mask holds, in row-major order. *)
argwhere(raster, mask) ==
    LET flat == [k \in 1..(raster.height * raster.width) |->
                    <<(k - 1) \div raster.width, (k - 1) % raster.width>>]
        keep(p) == mask[p]
    IN  SelectSeq(flat, keep)

(* Faulty variant: replace=True. *)
random_choice_with_replacement(n, size) == [1..size -> 1..n]

(* np.random.choice(n, size, replace=False): every arrangement of `size`
   distinct indices of 1..n; the draw is the model's nondeterminism. *)
random_choice(n, size) == {s \in [1..size -> 1..n] : Injective(s)}

(* sampled_indices: a random draw above the limit, else every valid index. *)
select_indices(valid_indices, limit) ==
    IF Len(valid_indices) > limit
    THEN {[j \in 1..limit |-> valid_indices[s[j]]] :
              s \in random_choice(Len(valid_indices), limit)}
    ELSE {valid_indices}

(* coords_data: one (x, y, value) row per sampled index, in order. *)
coords_of(raster, indices) ==
    [j \in 1..Len(indices) |->
        LET p == indices[j]
            c == xy(raster.transform, p[1], p[2])
        IN  <<c[1], c[2], raster.band[p]>>]

(* The outcomes of one call: the branch taken, sampled_indices and the rows
   of the returned DataFrame.  rasterio.open raising on an unreadable file
   is caught by the except clause: a diagnostic and an empty table. *)
extract_sampled_depths(file, limit) ==
    IF ~file.readable
    THEN {[kind |-> "read_error", sampled_indices |-> <<>>, rows |-> <<>>]}
    ELSE LET valid_indices == argwhere(file, valid_mask(file))
         IN  IF Len(valid_indices) = 0
             THEN {[kind |-> "empty", sampled_indices |-> <<>>, rows |-> <<>>]}
             ELSE {[kind |-> IF Len(valid_indices) > limit THEN "random" ELSE "all",
                    sampled_indices |-> s,
                    rows |-> coords_of(file, s)] :
                       s \in select_indices(valid_indices, limit)}

-----------------------------------------------------------------------------
(* The CSV text of a float.  to_csv writes the shortest decimal that reads
   back as the same float ("0.01", "-0.75", "2.0"); read_csv parses it. *)

Digits == <<"0", "1", "2", "3", "4", "5", "6", "7", "8", "9">>

DigitValue(ch) == CHOOSE d \in 0..9 : Digits[d + 1] = ch

RECURSIVE NatToChars(_)
NatToChars(n) ==
    IF n < 10 THEN <<Digits[n + 1]>>
    ELSE NatToChars(n \div 10) \o <<Digits[(n % 10) + 1]>>

RECURSIVE CharsToNat(_)
CharsToNat(chars) ==
    IF chars = <<>> THEN 0
    ELSE CharsToNat(SubSeq(chars, 1, Len(chars) - 1)) * 10
             + DigitValue(chars[Len(chars)])

Abs(v) == IF v < 0 THEN -v ELSE v

format_float(v) ==
    LET m == Abs(v)
        frac == m % 100
    IN  (IF v < 0 THEN <<"-">> ELSE <<>>)
          \o NatToChars(m \div 100) \o <<".">>
          \o (IF frac % 10 = 0 THEN <<Digits[(frac \div 10) + 1]>>
              ELSE <<Digits[(frac \div 10) + 1], Digits[(frac % 10) + 1]>>)

parse_float(chars) ==
    LET neg == chars[1] = "-"
        body == IF neg THEN Tail(chars) ELSE chars
        dot == CHOOSE k \in 1..Len(body) : body[k] = "."
        whole == CharsToNat(SubSeq(body, 1, dot - 1))
        fracChars == SubSeq(body, dot + 1, Len(body))
        frac == IF Len(fracChars) = 1 THEN 10 * DigitValue(fracChars[1])
                ELSE CharsToNat(fracChars)
        m == whole * 100 + frac
    IN  IF neg THEN -m ELSE m

(* OUTPUT_FILE: missing, or the header line and one line of three fields
   per row. *)
Absent == [exists |-> FALSE]

to_csv(rows) ==
    [exists |-> TRUE, header |-> COLUMNS,
     lines |-> [k \in 1..Len(rows) |->
                   <<format_float(rows[k][1]), format_float(rows[k][2]),
                     format_float(rows[k][3])>>]]

read_csv(file) ==
    [k \in 1..Len(file.lines) |->
        <<parse_float(file.lines[k][1]), parse_float(file.lines[k][2]),
          parse_float(file.lines[k][3])>>]

-----------------------------------------------------------------------------
(* append_to_output_file *)

(* Faulty variants: no deduplication; keep="last". *)
drop_duplicates_disabled(rows) == rows

RECURSIVE drop_duplicates_keep_last(_)
drop_duplicates_keep_last(rows) ==
    IF rows = <<>> THEN <<>>
    ELSE LET rest == drop_duplicates_keep_last(Tail(rows))
         IN  IF Head(rows) \in Range(Tail(rows)) THEN rest
             ELSE <<Head(rows)>> \o rest

(* DataFrame.drop_duplicates over the three columns, keep="first". *)
RECURSIVE drop_duplicates(_)
drop_duplicates(rows) ==
    IF rows = <<>> THEN <<>>
    ELSE LET front == drop_duplicates(SubSeq(rows, 1, Len(rows) - 1))
             last == rows[Len(rows)]
         IN  IF last \in Range(front) THEN front ELSE Append(front, last)

(* Faulty variant: the existing table is not read. *)
combined_df_new_only(file, rows) == rows

(* pd.concat([existing_df, df]) when the file exists, else df alone. *)
combined_df(file, rows) ==
    IF file.exists THEN read_csv(file) \o rows ELSE rows

(* The file the call leaves when it runs to its end. *)
append_to_output_file(file, rows) ==
    to_csv(drop_duplicates(combined_df(file, rows)))

(* to_csv opens OUTPUT_FILE for writing, which empties it, and writes the
   lines in order: the files a process ended during the write can leave. *)
partial_writes(file, rows) ==
    LET full == append_to_output_file(file, rows)
    IN  {[full EXCEPT !.lines = SubSeq(full.lines, 1, k)] :
             k \in 0..(Len(full.lines) - 1)}

-----------------------------------------------------------------------------
(* download_file *)

None == <<>>

(* url.split("/")[-1]: a URL is the sequence of its "/"-separated parts. *)
filename_of(u) == u[Len(u)]

filepath_of(u) == <<DOWNLOAD_FOLDER, filename_of(u)>>

(* Faulty variant: the cache is never consulted. *)
os_path_exists_never(fs, path) == FALSE

(* os.path.exists after os.makedirs: the folder itself exists, so the path
   of an empty filename does too. *)
os_path_exists(fs, path) == path[2] = "" \/ path[2] \in DOMAIN fs

write_file(fs, name, content) ==
    [n \in DOMAIN fs \cup {name} |-> IF n = name THEN content ELSE fs[n]]

(* What requests.get(url, stream=True) can do: answer 200 with a body,
   answer another status, or raise (no connection, bad URL). *)
Responses(body) ==
    {[raised |-> FALSE, status_code |-> 200, content |-> body],
     [raised |-> FALSE, status_code |-> 404, content |-> Corrupt],
     [raised |-> TRUE, status_code |-> 0, content |-> Corrupt]}

(* The outcomes of one call: the branch taken, the value returned (no value
   when the exception leaves the function), the folder afterwards and the
   number of requests made. *)
download_file(fs, u, body) ==
    LET filepath == filepath_of(u)
    IN  IF os_path_exists(fs, filepath)
        THEN {[kind |-> "hit", path |-> filepath, downloads |-> fs, requests |-> 0]}
        ELSE {IF r.raised
              THEN [kind |-> "raised", path |-> None, downloads |-> fs, requests |-> 1]
              ELSE IF r.status_code = 200
              THEN [kind |-> "downloaded", path |-> filepath,
                    downloads |-> write_file(fs, filepath[2], r.content),
                    requests |-> 1]
              ELSE [kind |-> "status_error", path |-> None, downloads |-> fs,
                    requests |-> 1] : r \in Responses(body)}
          \cup {[kind |-> "stream_error", path |-> None,
                 downloads |-> write_file(fs, filepath[2], Corrupt),
                 requests |-> 1]}

(* rasterio.open(tiff_path): the cached file, unreadable when the path is
   the folder itself. *)
file_at(fs, path) == IF path[2] \in DOMAIN fs THEN fs[path[2]] ELSE Corrupt

-----------------------------------------------------------------------------
(* Values of the variables a specification does not use. *)

EmptyFolder == [n \in {} |-> Corrupt]

IdleFetch ==
    /\ downloads = EmptyFolder
    /\ requests_made = 0
    /\ url = <<>>
    /\ tiff_path = None
    /\ fetch_kind = "none"

IdleSample ==
    /\ src = Corrupt
    /\ sample_limit = SAMPLE_LIMIT
    /\ sampled_indices = <<>>
    /\ df = <<>>
    /\ sample_kind = "none"

IdleMerge ==
    /\ output_csv = Absent
    /\ existing_csv = Absent
    /\ new_rows = <<>>

IdleDriver ==
    /\ urls = <<>>
    /\ i = 0
    /\ pc = "idle"
    /\ progress = <<0, 1>>
    /\ error = "none"

-----------------------------------------------------------------------------
(* The sampler alone: one call of extract_sampled_depths on any file and
   any sample_limit of the bounds. *)

SampleRasters ==
    UNION {{Raster(shape[1], shape[2], band, nodata) :
                band \in [Positions(shape[1], shape[2]) -> PixelValues],
                nodata \in NoDataValues} :
              shape \in (1..2) \X (1..MaxWidth)}

InitSample ==
    /\ IdleFetch /\ IdleMerge /\ IdleDriver
    /\ calls = 0
    /\ src \in SampleRasters \cup {Corrupt}
    /\ sample_limit \in 0..MaxCap
    /\ sampled_indices = <<>>
    /\ df = <<>>
    /\ sample_kind = "none"

SampleCall ==
    /\ calls = 0
    /\ \E out \in extract_sampled_depths(src, sample_limit) :
          /\ sampled_indices' = out.sampled_indices
          /\ df' = out.rows
          /\ sample_kind' = out.kind
    /\ calls' = 1
    /\ UNCHANGED <<src, sample_limit, fetchVars, mergeVars, driverVars>>

NextSample == SampleCall

SpecSample == InitSample /\ [][NextSample]_vars

-----------------------------------------------------------------------------
(* Properties of the sampler (SpecSample) *)

(* The validity predicate as the specification words it: not the sentinel,
   and strictly greater than zero. *)
ValidPositions(raster) ==
    {p \in DOMAIN raster.band :
        raster.band[p] \notin raster.nodata /\ raster.band[p] > 0}

Min(a, b) == IF a < b THEN a ELSE b

Sampled == sample_kind \in {"empty", "all", "random"}

(* C4: a call on a readable raster returns exactly min(valid_count, cap)
   rows; row j is the coordinate and value of sampled position j; the
   sampled positions are pairwise distinct and valid; when valid_count <=
   cap every valid position is sampled; when valid_count = 0 the table has
   no rows. *)
C4_SampleSize ==
    Sampled =>
        LET valid == ValidPositions(src)
            n == Cardinality(valid)
        IN  /\ Len(df) = Min(n, sample_limit)
            /\ Len(sampled_indices) = Len(df)
            /\ Injective(sampled_indices)
            /\ Range(sampled_indices) \subseteq valid
            /\ \A j \in 1..Len(df) :
                  df[j] = <<xy(src.transform, sampled_indices[j][1],
                               sampled_indices[j][2])[1],
                            xy(src.transform, sampled_indices[j][1],
                               sampled_indices[j][2])[2],
                            src.band[sampled_indices[j]]>>
            /\ (n <= sample_limit => Range(sampled_indices) = valid)
            /\ (n = 0 => df = <<>> /\ sample_kind = "empty")

(* A draw of 2 out of at least 3 valid pixels. *)
C4_Witness ==
    /\ sample_kind = "random"
    /\ Cardinality(ValidPositions(src)) > sample_limit
    /\ sample_limit = 2
    /\ Len(df) = 2

(* C5: every returned depth is strictly positive and is not the sentinel,
   whether the sentinel is positive, non-positive or absent; and a positive
   pixel that is not the sentinel is sampled whenever the cap leaves room
   for every valid pixel. *)
C5_DepthValid ==
    Sampled =>
        /\ \A j \in 1..Len(df) : df[j][3] > 0 /\ df[j][3] \notin src.nodata
        /\ \A p \in DOMAIN src.band :
              (/\ src.band[p] > 0
               /\ src.band[p] \notin src.nodata
               /\ Cardinality(ValidPositions(src)) <= sample_limit)
                  => \E j \in 1..Len(df) :
                        sampled_indices[j] = p /\ df[j][3] = src.band[p]

(* A raster with a positive sentinel that holds a sentinel pixel, a zero or
   negative pixel and a valid pixel, sampled. *)
C5_Witness ==
    /\ Sampled
    /\ src.nodata = {200}
    /\ \E p, q \in DOMAIN src.band : src.band[p] = 200 /\ src.band[q] <= 0
    /\ Len(df) >= 1

-----------------------------------------------------------------------------
(* The accumulator alone: merges of any non-empty DataFrame into whatever
   table is on disk (none, or a table of any rows, repeated ones included). *)

MergeRows == {-75, 25} \X {125} \X {1, 200}

InitMerge ==
    /\ IdleFetch /\ IdleSample /\ IdleDriver
    /\ calls = 0
    /\ output_csv \in {Absent} \cup {to_csv(t) : t \in SeqsUpTo(MergeRows, MaxTableRows)}
    /\ existing_csv = Absent
    /\ new_rows = <<>>

MergeCall ==
    /\ calls < MaxCalls
    /\ \E rows \in SeqsUpTo(MergeRows, MaxNewRows) \ {<<>>} :
          /\ new_rows' = rows
          /\ existing_csv' = output_csv
          /\ output_csv' = append_to_output_file(output_csv, rows)
    /\ calls' = calls + 1
    /\ UNCHANGED <<fetchVars, sampleVars, driverVars>>

NextMerge == MergeCall

SpecMerge == InitMerge /\ [][NextMerge]_vars

-----------------------------------------------------------------------------
(* Properties of the accumulator (SpecMerge) *)

(* The rows a file holds, as values; none when there is no file. *)
PersistedRows(file) == IF file.exists THEN read_csv(file) ELSE <<>>

(* The elements of a sequence that no earlier element equals, in order. *)
FirstOccurrences(all) ==
    LET isFirst(k) == \A j \in 1..(k - 1) : all[j] # all[k]
        idx == SelectSeq([k \in 1..Len(all) |-> k], isFirst)
    IN  [m \in 1..Len(idx) |-> all[idx[m]]]

(* C1: after every merge the persisted table holds no two rows equal in all
   three fields, as text on disk and as values read back. *)
C1_NoDuplicateRows ==
    calls >= 1 =>
        /\ output_csv.exists
        /\ Injective(output_csv.lines)
        /\ Injective(read_csv(output_csv))

(* A merge that met repeated rows: fewer rows written than were combined. *)
C1_Witness ==
    /\ calls >= 1
    /\ Len(output_csv.lines) < Len(PersistedRows(existing_csv)) + Len(new_rows)
    /\ Len(output_csv.lines) >= 2

(* C2: the table written is the first-occurrence deduplication of the prior
   rows in their persisted order followed by the new rows in their order. *)
C2_FirstOccurrenceOrder ==
    calls >= 1 =>
        read_csv(output_csv)
            = FirstOccurrences(PersistedRows(existing_csv) \o new_rows)

(* A merge over at least two prior rows in which one new row repeats the
   second prior row and another new row is new. *)
C2_Witness ==
    /\ calls >= 1
    /\ existing_csv.exists
    /\ Len(existing_csv.lines) >= 2
    /\ \E j, k \in 1..Len(new_rows) :
          /\ j < k
          /\ new_rows[j] = read_csv(existing_csv)[2]
          /\ new_rows[k] \notin Range(read_csv(existing_csv))

(* C3: when the table on disk was written by an earlier merge and every new
   row is already in it, the merge leaves the same rows, hence the same row
   count. *)
C3_SubsetMergeUnchanged ==
    (/\ calls >= 2
     /\ Range(new_rows) \subseteq Range(PersistedRows(existing_csv)))
        => /\ output_csv = existing_csv
           /\ Len(output_csv.lines) = Len(existing_csv.lines)

(* A second merge of two rows that the first merge persisted, into a table
   that holds a third row as well. *)
C3_Witness ==
    /\ calls >= 2
    /\ Len(new_rows) = 2
    /\ new_rows[1] # new_rows[2]
    /\ Range(new_rows) \subseteq Range(PersistedRows(existing_csv))
    /\ Len(existing_csv.lines) >= 3

-----------------------------------------------------------------------------
(* The remote sources of the model and the rasters they serve. *)

RasterA ==
    Raster(2, 2, [p \in Positions(2, 2) |->
                     CASE p = <<0, 0>> -> 1
                       [] p = <<0, 1>> -> 200
                       [] p = <<1, 0>> -> -500
                       [] OTHER -> 150],
           {-500})

(* Two valid pixels; the one at <<0, 0>> repeats RasterA's row. *)
RasterB ==
    Raster(2, 2, [p \in Positions(2, 2) |->
                     CASE p = <<0, 0>> -> 1
                       [] p = <<0, 1>> -> 150
                       [] OTHER -> 0],
           {})

(* No valid pixel. *)
RasterEmpty ==
    Raster(2, 2, [p \in Positions(2, 2) |->
                     IF p[1] = 0 THEN 0 ELSE -500],
           {-500})

(* The last URL ends in "/": its derived filename is empty.  Two URLs share
   the filename a.tif. *)
URLS == {<<"h1", "a.tif">>, <<"h2", "a.tif">>, <<"h1", "b.tif">>, <<"h1", "">>}

Remote(u) ==
    CASE u = <<"h1", "a.tif">> -> RasterA
      [] u = <<"h2", "a.tif">> -> RasterEmpty
      [] u = <<"h1", "b.tif">> -> RasterB
      [] OTHER -> Corrupt

(* The cache folder an earlier run can have left. *)
InitialFolders ==
    {EmptyFolder, write_file(EmptyFolder, "a.tif", RasterA),
     write_file(EmptyFolder, "a.tif", Corrupt)}

-----------------------------------------------------------------------------
(* The fetcher alone: calls of download_file on the URLs of the model. *)

InitFetch ==
    /\ IdleSample /\ IdleMerge /\ IdleDriver
    /\ calls = 0
    /\ downloads \in InitialFolders
    /\ requests_made = 0
    /\ url = <<>>
    /\ tiff_path = None
    /\ fetch_kind = "none"

FetchCall ==
    /\ calls < MaxCalls
    /\ \E u \in URLS :
          \E out \in download_file(downloads, u, Remote(u)) :
             /\ url' = u
             /\ tiff_path' = out.path
             /\ fetch_kind' = out.kind
             /\ downloads' = out.downloads
             /\ requests_made' = requests_made + out.requests
    /\ calls' = calls + 1
    /\ UNCHANGED <<sampleVars, mergeVars, driverVars>>

NextFetch == FetchCall

SpecFetch == InitFetch /\ [][NextFetch]_vars

(* C6: once a file with the URL's derived filename is in the cache folder,
   a fetch of that URL returns its path, makes no request and leaves the
   folder, hence the file's content, as it was. *)
C6_CacheHitIdempotent ==
    [][(calls' = calls + 1 /\ filename_of(url') \in DOMAIN downloads)
          => /\ tiff_path' = <<DOWNLOAD_FOLDER, filename_of(url')>>
             /\ requests_made' = requests_made
             /\ downloads' = downloads]_vars

(* A second call that hit the file the first call downloaded. *)
C6_Witness ==
    /\ calls = 2
    /\ fetch_kind = "hit"
    /\ requests_made = 1
    /\ filename_of(url) \in DOMAIN downloads
    /\ downloads[filename_of(url)].readable
    /\ tiff_path = <<DOWNLOAD_FOLDER, filename_of(url)>>

-----------------------------------------------------------------------------
(* The pipeline driver: the script body run on an uploaded, non-empty URL
   list.  One action per call the loop makes; an exception no handler
   catches ends the run ("aborted"); the host can end the process at any
   point of the loop ("killed"). *)

(* The table an earlier run can have left: none, or RasterA's rows. *)
InitialTables ==
    {Absent, to_csv(coords_of(RasterA, argwhere(RasterA, valid_mask(RasterA))))}

Init ==
    /\ IdleSample
    /\ calls = 0
    /\ downloads \in InitialFolders
    /\ requests_made = 0
    /\ url = <<>>
    /\ tiff_path = None
    /\ fetch_kind = "none"
    /\ output_csv \in InitialTables
    /\ existing_csv = Absent
    /\ new_rows = <<>>
    /\ urls \in SeqsUpTo(URLS, MaxUrls) \ {<<>>}
    /\ i = 0
    /\ pc = "fetch"
    /\ progress = <<0, 1>>
    /\ error = "none"

(* tiff_path = download_file(url); if tiff_path: ... *)
Fetch ==
    /\ pc = "fetch"
    /\ \E out \in download_file(downloads, urls[i + 1], Remote(urls[i + 1])) :
          /\ url' = urls[i + 1]
          /\ tiff_path' = out.path
          /\ fetch_kind' = out.kind
          /\ downloads' = out.downloads
          /\ requests_made' = requests_made + out.requests
          /\ IF out.kind \in {"raised", "stream_error"}
             THEN pc' = "aborted" /\ error' = "RequestException"
             ELSE /\ pc' = IF out.path # None THEN "sample" ELSE "progress"
                  /\ error' = error
    /\ UNCHANGED <<urls, i, progress, sampleVars, mergeVars, calls>>

(* df = extract_sampled_depths(tiff_path); if not df.empty: ... *)
Sample ==
    /\ pc = "sample"
    /\ src' = file_at(downloads, tiff_path)
    /\ sample_limit' = SAMPLE_LIMIT
    /\ \E out \in extract_sampled_depths(file_at(downloads, tiff_path), SAMPLE_LIMIT) :
          /\ sampled_indices' = out.sampled_indices
          /\ df' = out.rows
          /\ sample_kind' = out.kind
          /\ pc' = IF out.rows # <<>> THEN "merge" ELSE "progress"
    /\ UNCHANGED <<urls, i, progress, error, fetchVars, mergeVars, calls>>

(* append_to_output_file(df), run to its end. *)
Merge ==
    /\ pc = "merge"
    /\ new_rows' = df
    /\ existing_csv' = output_csv
    /\ output_csv' = append_to_output_file(output_csv, df)
    /\ pc' = "progress"
    /\ UNCHANGED <<urls, i, progress, error, fetchVars, sampleVars, calls>>

(* progress.progress((i + 1) / len(urls)), then the next source or the end
   of the loop. *)
Progress ==
    /\ pc = "progress"
    /\ progress' = <<i + 1, Len(urls)>>
    /\ i' = i + 1
    /\ pc' = IF i + 1 < Len(urls) THEN "fetch" ELSE "success"
    /\ UNCHANGED <<urls, error, fetchVars, sampleVars, mergeVars, calls>>

(* st.success(...) *)
Success ==
    /\ pc = "success"
    /\ pc' = "download_button"
    /\ UNCHANGED <<urls, i, progress, error, fetchVars, sampleVars, mergeVars, calls>>

(* with open(OUTPUT_FILE, "rb") as f: st.download_button(...) *)
DownloadButton ==
    /\ pc = "download_button"
    /\ IF output_csv.exists
       THEN pc' = "preview" /\ error' = error
       ELSE pc' = "aborted" /\ error' = "FileNotFoundError"
    /\ UNCHANGED <<urls, i, progress, fetchVars, sampleVars, mergeVars, calls>>

(* if os.path.exists(OUTPUT_FILE): the preview and the map. *)
Preview ==
    /\ pc = "preview"
    /\ pc' = "done"
    /\ UNCHANGED <<urls, i, progress, error, fetchVars, sampleVars, mergeVars, calls>>

(* The host ends the process between two calls of the loop. *)
Terminate ==
    /\ pc \in {"fetch", "sample", "merge", "progress"}
    /\ pc' = "killed"
    /\ UNCHANGED <<urls, i, progress, error, fetchVars, sampleVars, mergeVars, calls>>

(* The host ends the process while to_csv is writing OUTPUT_FILE. *)
TerminateDuringWrite ==
    /\ pc = "merge"
    /\ new_rows' = df
    /\ existing_csv' = output_csv
    /\ output_csv' \in partial_writes(output_csv, df)
    /\ pc' = "killed"
    /\ UNCHANGED <<urls, i, progress, error, fetchVars, sampleVars, calls>>

Next ==
    \/ Fetch
    \/ Sample
    \/ Merge
    \/ Progress
    \/ Success
    \/ DownloadButton
    \/ Preview
    \/ Terminate
    \/ TerminateDuringWrite

Spec == Init /\ [][Next]_vars

-----------------------------------------------------------------------------
(* Properties of the pipeline (Spec) *)

(* C7: on a cache miss every unsuccessful retrieval, a non-success status
   or a network/transport error, makes download_file return None, and no
   exception of the fetch step reaches the driver. *)
C7_FetchFailureIsAbsence ==
    /\ fetch_kind \in {"status_error", "raised", "stream_error"}
          => tiff_path = None
    /\ error # "RequestException"

(* C8: no outcome of a source ends the run inside the loop, and the
   progress signal is i/n once i sources have been processed. *)
C8_FailuresIsolated ==
    /\ pc = "aborted" => i = Len(urls)
    /\ (pc \in {"fetch", "success"} /\ i > 0) => progress = <<i, Len(urls)>>

(* The lines of the table on disk. *)
RowsOnDisk(file) == IF file.exists THEN Range(file.lines) ELSE {}

(* C9: whatever the point at which the run is interrupted, a row that was
   on disk stays on disk: no step removes a persisted row. *)
C9_PersistedRowsSurvive ==
    [][RowsOnDisk(output_csv) \subseteq RowsOnDisk(output_csv')]_vars

(* C10: a batch whose loop has processed every source without any merge
   ends without an unhandled error, also when no table was on disk. *)
C10_NoMergeBatchCompletes ==
    (i = Len(urls) /\ new_rows = <<>>) => error = "none"

=============================================================================
